---- MODULE Spec2Model ----
(***************************************************************************)
(* Job-order workflow engine of api_next: the phase registry and the       *)
(* transition validator/executor (workflows/job_order_workflow.py), the    *)
(* HTTP entry points transition_phase / rollback_phase                     *)
(* (api/job_workflow.py) and the scheduled-transition runner               *)
(* (api/job_workflow_advanced.py), as one state machine over one job       *)
(* order and one scheduled request.                                        *)
(***************************************************************************)
EXTENDS Integers, Sequences, FiniteSets, TLC

\* ------------------------------------------------------------------ bounds
MaxTime == 2
MaxMoves == 2
MaxConds == 2
MaxRules == 2

None == "None"

\* ------------------------------------------------------- users and roles
\* frappe.get_roles(user): three representative users.
Users == {"est", "admin", "client"}

get_roles(user) ==
    CASE user = "est"    -> {"Estimator"}
      [] user = "admin"  -> {"System Manager"}
      [] user = "client" -> {"Client"}
      [] OTHER           -> {}

\* setup_workflow_permissions: roles whose DocPerm on Job Order has write = 1
\* (System Manager keeps the DocType's own administrative permission).
WriteRoles == {"Job Coordinator", "Estimator", "Sales Manager", "Project Manager",
               "Site Supervisor", "Quality Inspector", "Billing Clerk", "System Manager"}

has_write_permission(user) == get_roles(user) \cap WriteRoles # {}

\* ---------------------------------------------------------- phase registry
PhaseNames == {"Submission", "Estimation", "Client Approval", "Planning", "Prework",
               "Execution", "Review", "Invoicing", "Closeout", "Archived", "Cancelled"}

PHASES ==
  [p \in PhaseNames |->
    CASE p = "Submission" ->
          [phase_order |-> 1, transitions |-> <<"Estimation", "Cancelled">>,
           required_fields |-> <<"customer_name", "project_name", "job_type", "start_date", "description">>,
           submit |-> {"Job Coordinator", "Project Manager", "System Manager"},
           validation_rules |-> <<"validate_basic_info", "check_customer_credit">>,
           escalation |-> FALSE]
      [] p = "Estimation" ->
          [phase_order |-> 2, transitions |-> <<"Client Approval", "Submission">>,
           required_fields |-> <<"scope_of_work", "material_requisitions", "labor_entries">>,
           submit |-> {"Estimator", "Project Manager", "System Manager"},
           validation_rules |-> <<"validate_estimates", "check_material_availability">>,
           escalation |-> FALSE]
      [] p = "Client Approval" ->
          [phase_order |-> 3, transitions |-> <<"Planning", "Estimation", "Cancelled">>,
           required_fields |-> <<"total_material_cost", "total_labor_cost">>,
           submit |-> {"Client", "Sales Manager", "Project Manager", "System Manager"},
           validation_rules |-> <<"validate_client_approval", "check_contract_terms">>,
           escalation |-> TRUE]
      [] p = "Planning" ->
          [phase_order |-> 4, transitions |-> <<"Prework", "Client Approval">>,
           required_fields |-> <<"team_members", "start_date", "end_date">>,
           submit |-> {"Project Manager", "Resource Coordinator", "System Manager"},
           validation_rules |-> <<"validate_resource_availability", "check_schedule_conflicts">>,
           escalation |-> FALSE]
      [] p = "Prework" ->
          [phase_order |-> 5, transitions |-> <<"Execution", "Planning">>,
           required_fields |-> <<"material_requisitions", "team_members">>,
           submit |-> {"Project Manager", "Site Supervisor", "System Manager"},
           validation_rules |-> <<"validate_material_orders", "check_permits", "verify_equipment_availability">>,
           escalation |-> FALSE]
      [] p = "Execution" ->
          [phase_order |-> 6, transitions |-> <<"Review", "Prework">>,
           required_fields |-> <<"labor_entries">>,
           submit |-> {"Site Supervisor", "Technician", "Project Manager", "System Manager"},
           validation_rules |-> <<"validate_work_completion", "check_quality_standards">>,
           escalation |-> FALSE]
      [] p = "Review" ->
          [phase_order |-> 7, transitions |-> <<"Invoicing", "Execution">>,
           required_fields |-> <<"total_labor_hours", "total_material_cost">>,
           submit |-> {"Quality Inspector", "Project Manager", "System Manager"},
           validation_rules |-> <<"validate_quality_standards", "client_sign_off">>,
           escalation |-> FALSE]
      [] p = "Invoicing" ->
          [phase_order |-> 8, transitions |-> <<"Closeout", "Review">>,
           required_fields |-> <<"total_material_cost", "total_labor_cost">>,
           submit |-> {"Billing Clerk", "Accountant", "Project Manager", "System Manager"},
           validation_rules |-> <<"validate_billing_amounts", "check_payment_terms">>,
           escalation |-> FALSE]
      [] p = "Closeout" ->
          [phase_order |-> 9, transitions |-> <<"Archived">>,
           required_fields |-> <<"documents", "total_labor_hours", "total_material_cost", "total_labor_cost">>,
           submit |-> {"Project Manager", "Document Controller", "System Manager"},
           validation_rules |-> <<"validate_documentation", "confirm_payment_received">>,
           escalation |-> FALSE]
      [] p = "Archived" ->
          [phase_order |-> 10, transitions |-> <<>>,
           required_fields |-> <<>>,
           submit |-> {},
           validation_rules |-> <<>>,
           escalation |-> FALSE]
      [] OTHER ->  \* "Cancelled"
          [phase_order |-> 0, transitions |-> <<"Submission">>,
           required_fields |-> <<"cancellation_reason">>,
           submit |-> {"Project Manager", "System Manager"},
           validation_rules |-> <<"validate_cancellation_reason">>,
           escalation |-> FALSE]]

\* cls.PHASES.get(phase_name, {}): an unknown name yields the empty config.
EmptyConfig ==
    [phase_order |-> 0, transitions |-> <<>>, required_fields |-> <<>>,
     submit |-> {}, validation_rules |-> <<>>, escalation |-> FALSE]

get_phase_config(phase_name) ==
    IF phase_name \in PhaseNames THEN PHASES[phase_name] ELSE EmptyConfig

\* A registry read that also offers Planning from Estimation.
get_valid_transitions_with_shortcut(current_phase) ==
    IF current_phase = "Estimation"
    THEN <<"Client Approval", "Submission", "Planning">>
    ELSE get_phase_config(current_phase).transitions

get_valid_transitions(current_phase) == get_phase_config(current_phase).transitions

Range(s) == {s[i] : i \in 1..Len(s)}

\* The subsequence of s whose members are in S, order kept (missing_fields list).
RECURSIVE SelectIn(_, _)
SelectIn(s, S) ==
    IF s = <<>> THEN <<>>
    ELSE IF Head(s) \in S THEN <<Head(s)>> \o SelectIn(Tail(s), S)
         ELSE SelectIn(Tail(s), S)

\* ------------------------------------------------------------ entity data
\* A document is represented by the set of its fields whose value is truthy
\* (`not getattr(doc, field, None)` is all the validator ever asks).  Child
\* tables appear as "material_requisitions"/"labor_entries"/... when non-empty;
\* "material_amount", "labor_amount" and "labor_hours" say that some row of the
\* table carries a non-zero amount / hours.
AllFields == {"customer_name", "project_name", "job_type", "start_date", "end_date",
              "description", "scope_of_work", "material_requisitions", "labor_entries",
              "team_members", "documents", "phases", "cancellation_reason",
              "material_amount", "labor_amount", "labor_hours",
              "total_material_cost", "total_labor_cost", "total_labor_hours"}

\* JobOrder.calculate_totals, run by validate() on every save.
calculate_totals(f) ==
    (f \ {"total_material_cost", "total_labor_hours", "total_labor_cost"})
      \cup (IF {"material_requisitions", "material_amount"} \subseteq f
            THEN {"total_material_cost"} ELSE {})
      \cup (IF {"labor_entries", "labor_hours"} \subseteq f
            THEN {"total_labor_hours"} ELSE {})
      \cup (IF {"labor_entries", "labor_amount"} \subseteq f
            THEN {"total_labor_cost"} ELSE {})

\* Documents the environment may store (all saved through calculate_totals).
FullDoc == AllFields
NoDescDoc == AllFields \ {"description", "scope_of_work"}
BareDoc == {"customer_name", "project_name", "job_type", "start_date"}
ScopedDoc == BareDoc \cup {"description", "scope_of_work"}
FieldSets == {FullDoc, NoDescDoc, BareDoc, ScopedDoc}

\* ------------------------------------------------- validation rules (base)
Verdict(valid, reason, named) == [valid |-> valid, reason |-> reason, named |-> named]

validate_basic_info(doc) ==
    LET missing == SelectIn(<<"customer_name", "project_name", "job_type", "description">>,
                            AllFields \ doc)
    IN IF missing # <<>> THEN Verdict(FALSE, "rule", missing)
       ELSE Verdict(TRUE, "ok", <<>>)

validate_estimates(doc) ==
    IF "material_requisitions" \notin doc /\ "labor_entries" \notin doc
    THEN Verdict(FALSE, "rule", <<>>) ELSE Verdict(TRUE, "ok", <<>>)

validate_resource_availability(doc) ==
    IF "team_members" \notin doc
    THEN Verdict(FALSE, "rule", <<>>) ELSE Verdict(TRUE, "ok", <<>>)

validate_billing_amounts(doc) ==
    IF "total_material_cost" \notin doc /\ "total_labor_cost" \notin doc
    THEN Verdict(FALSE, "rule", <<>>) ELSE Verdict(TRUE, "ok", <<>>)

validate_cancellation_reason(doc) ==
    IF "cancellation_reason" \notin doc
    THEN Verdict(FALSE, "rule", <<>>) ELSE Verdict(TRUE, "ok", <<>>)

\* _execute_validation_rule: the if/elif dispatch; every other named rule is a
\* placeholder returning valid, and an unknown name is valid too.
execute_validation_rule(doc, rule_name) ==
    CASE rule_name = "validate_basic_info"            -> validate_basic_info(doc)
      [] rule_name = "validate_estimates"             -> validate_estimates(doc)
      [] rule_name = "validate_resource_availability" -> validate_resource_availability(doc)
      [] rule_name = "validate_billing_amounts"       -> validate_billing_amounts(doc)
      [] rule_name = "validate_cancellation_reason"   -> validate_cancellation_reason(doc)
      [] OTHER                                        -> Verdict(TRUE, "ok", <<>>)

\* The loop over validation_rules: the first failing rule's verdict, else valid.
RECURSIVE run_validation_rules(_, _)
run_validation_rules(doc, rules) ==
    IF rules = <<>> THEN Verdict(TRUE, "ok", <<>>)
    ELSE LET r == execute_validation_rule(doc, Head(rules))
         IN IF ~r.valid THEN r ELSE run_validation_rules(doc, Tail(rules))

\* Check 2 of validate_transition: the actor's roles against the destination's
\* "submit" roles (an empty role list lets everyone through).
HasRequiredRole(required_roles, user_roles) ==
    required_roles = {} \/ (required_roles \cap user_roles # {})

\* A validator that looks at the required fields before the actor's roles.
validate_transition_fields_first(doc, from_state, to_state, user) ==
    LET valid_transitions == get_valid_transitions(from_state)
        to_phase_config == get_phase_config(to_state)
        missing_fields == SelectIn(to_phase_config.required_fields, AllFields \ doc)
    IN IF to_state \notin Range(valid_transitions)
         THEN Verdict(FALSE, "invalid_transition", <<>>)
       ELSE IF missing_fields # <<>>
         THEN Verdict(FALSE, "missing_fields", missing_fields)
       ELSE IF ~HasRequiredRole(to_phase_config.submit, get_roles(user))
         THEN Verdict(FALSE, "roles", <<>>)
       ELSE run_validation_rules(doc, to_phase_config.validation_rules)

\* JobOrderWorkflow.validate_transition (base workflow).
validate_transition(doc, from_state, to_state, user) ==
    LET valid_transitions == get_valid_transitions(from_state)
        to_phase_config == get_phase_config(to_state)
        missing_fields == SelectIn(to_phase_config.required_fields, AllFields \ doc)
    IN IF to_state \notin Range(valid_transitions)
         THEN Verdict(FALSE, "invalid_transition", <<>>)
       ELSE IF ~HasRequiredRole(to_phase_config.submit, get_roles(user))
         THEN Verdict(FALSE, "roles", <<>>)
       ELSE IF missing_fields # <<>>
         THEN Verdict(FALSE, "missing_fields", missing_fields)
       ELSE run_validation_rules(doc, to_phase_config.validation_rules)

\* ------------------------------------------- wrapper workflow (fallback)
WrapperPhaseNames == {"SUBMISSION", "ESTIMATION", "CLIENT_APPROVAL", "PLANNING", "PREWORK",
                      "EXECUTION", "QC_REVIEW", "INVOICING", "CLOSEOUT"}

wrapper_phases ==
  [p \in WrapperPhaseNames |->
    CASE p = "SUBMISSION" ->
          [transitions |-> <<"ESTIMATION", "Cancelled">>,
           required_fields |-> <<"customer_name", "project_name", "job_type", "start_date", "description">>,
           submit |-> {"Job Coordinator", "Project Manager", "System Manager"}]
      [] p = "ESTIMATION" ->
          [transitions |-> <<"CLIENT_APPROVAL", "SUBMISSION">>,
           required_fields |-> <<"scope_of_work", "material_requisitions", "labor_entries">>,
           submit |-> {"Estimator", "Project Manager", "System Manager"}]
      [] p = "CLIENT_APPROVAL" ->
          [transitions |-> <<"PLANNING", "ESTIMATION", "Cancelled">>,
           required_fields |-> <<"total_material_cost", "total_labor_cost">>,
           submit |-> {"Client", "Sales Manager", "Project Manager", "System Manager"}]
      [] p = "PLANNING" ->
          [transitions |-> <<"PREWORK", "CLIENT_APPROVAL">>,
           required_fields |-> <<"team_members", "start_date", "end_date">>,
           submit |-> {"Project Manager", "Resource Coordinator", "System Manager"}]
      [] p = "PREWORK" ->
          [transitions |-> <<"EXECUTION", "PLANNING">>,
           required_fields |-> <<"material_requisitions", "team_members">>,
           submit |-> {"Project Manager", "Site Supervisor", "System Manager"}]
      [] p = "EXECUTION" ->
          [transitions |-> <<"QC_REVIEW", "PREWORK">>,
           required_fields |-> <<"labor_entries">>,
           submit |-> {"Site Supervisor", "Technician", "Project Manager", "System Manager"}]
      [] p = "QC_REVIEW" ->
          [transitions |-> <<"INVOICING", "EXECUTION">>,
           required_fields |-> <<"total_labor_hours", "total_material_cost">>,
           submit |-> {"Quality Inspector", "Project Manager", "System Manager"}]
      [] p = "INVOICING" ->
          [transitions |-> <<"CLOSEOUT", "QC_REVIEW">>,
           required_fields |-> <<"total_material_cost", "total_labor_cost">>,
           submit |-> {"Billing Clerk", "Accountant", "Project Manager", "System Manager"}]
      [] OTHER ->  \* "CLOSEOUT"
          [transitions |-> <<"Archived">>,
           required_fields |-> <<"documents", "total_labor_hours", "total_material_cost", "total_labor_cost">>,
           submit |-> {"Project Manager", "Document Controller", "System Manager"}]]

WrapperEmptyConfig == [transitions |-> <<>>, required_fields |-> <<>>, submit |-> {}]

wrapper_get_phase_config(phase_name) ==
    IF phase_name \in WrapperPhaseNames THEN wrapper_phases[phase_name] ELSE WrapperEmptyConfig

\* self._transitions.get(current_phase, [])
wrapper_get_valid_transitions(current_phase) == wrapper_get_phase_config(current_phase).transitions

\* Wrapper validate_transition: delegation to the base workflow when it could
\* be imported, else the fallback (transition check and required fields only).
wrapper_validate_transition(has_base_workflow, doc, from_state, to_state, user) ==
    IF has_base_workflow THEN validate_transition(doc, from_state, to_state, user)
    ELSE LET valid_transitions == wrapper_get_valid_transitions(from_state)
             missing_fields == SelectIn(wrapper_get_phase_config(to_state).required_fields,
                                        AllFields \ doc)
         IN IF to_state \notin Range(valid_transitions)
              THEN Verdict(FALSE, "invalid_transition", <<>>)
            ELSE IF missing_fields # <<>>
              THEN Verdict(FALSE, "missing_fields", missing_fields)
            ELSE Verdict(TRUE, "ok", <<>>)

\* -------------------------------------------- HTTP API helpers (job_workflow)
\* The "Job Order Workflow" document read by frappe.get_doc("Workflow", ...):
\* one row per configured transition, its action named after the destination.
WorkflowTransitions ==
    UNION {{[state |-> p, action |-> d, next_state |-> d] :
                d \in Range(PHASES[p].transitions)} : p \in PhaseNames}

Actions == PhaseNames

\* _validate_transition(job_doc, action)
api_validate_transition(current_state, action) ==
    \E t \in WorkflowTransitions : t.state = current_state /\ t.action = action

\* _get_next_state(current_state, action)
get_next_state(current_state, action) ==
    IF \E t \in WorkflowTransitions : t.state = current_state /\ t.action = action
    THEN (CHOOSE t \in WorkflowTransitions :
             t.state = current_state /\ t.action = action).next_state
    ELSE None

\* _get_phase_requirements_config(phase)
get_phase_requirements_config(phase) ==
    CASE phase = "Estimation" ->
            <<[type |-> "field", name |-> "description"],
              [type |-> "field", name |-> "scope_of_work"]>>
      [] phase = "Client Approval" ->
            <<[type |-> "child_table", name |-> "phases"],
              [type |-> "custom", name |-> "has_cost_estimate"]>>
      [] phase = "Planning"  -> <<[type |-> "child_table", name |-> "team_members"]>>
      [] phase = "Prework"   -> <<[type |-> "custom", name |-> "has_material_plan"]>>
      [] phase = "Execution" -> <<[type |-> "custom", name |-> "all_resources_allocated"]>>
      [] phase = "Review"    -> <<[type |-> "custom", name |-> "work_completed"]>>
      [] phase = "Invoicing" -> <<[type |-> "custom", name |-> "quality_approved"]>>
      [] phase = "Closeout"  -> <<[type |-> "custom", name |-> "payment_received"]>>
      [] OTHER               -> <<>>

\* _check_custom_requirement(job_doc, check_type)
check_custom_requirement(doc, check_type) ==
    CASE check_type = "has_cost_estimate" ->
            ("total_material_cost" \in doc \/ "total_labor_cost" \in doc)
      [] check_type = "has_material_plan"       -> "material_requisitions" \in doc
      [] check_type = "all_resources_allocated" -> "team_members" \in doc
      [] OTHER                                  -> TRUE

\* _check_requirement(job_doc, requirement)
check_requirement(doc, requirement) ==
    CASE requirement.type = "field"       -> requirement.name \in doc
      [] requirement.type = "child_table" -> requirement.name \in doc
      [] requirement.type = "custom"      -> check_custom_requirement(doc, requirement.name)
      [] OTHER                            -> TRUE

\* _check_phase_prerequisites: valid iff no requirement is unmet; the message
\* only counts the unmet requirements ("N requirements not met").
check_phase_prerequisites(doc, target_state) ==
    LET requirements == get_phase_requirements_config(target_state)
        unmet == {i \in 1..Len(requirements) : ~check_requirement(doc, requirements[i])}
    IN [valid |-> unmet = {}, unmet |-> {requirements[i].name : i \in unmet}]

\* _execute_phase_logic: entering Archived stamps end_date.
execute_phase_logic(doc, new_state) ==
    IF new_state = "Archived" THEN doc \cup {"end_date"} ELSE doc

\* _is_valid_rollback(current_state, target_state)
rollback_paths(current_state) ==
    CASE current_state = "Estimation"      -> {"Submission"}
      [] current_state = "Client Approval" -> {"Estimation", "Submission"}
      [] current_state = "Planning"        -> {"Client Approval", "Estimation", "Submission"}
      [] current_state = "Prework"         -> {"Planning", "Client Approval", "Estimation", "Submission"}
      [] current_state = "Execution"       -> {"Prework", "Planning", "Client Approval", "Estimation", "Submission"}
      [] current_state = "Review"          -> {"Execution", "Prework", "Planning"}
      [] current_state = "Invoicing"       -> {"Review", "Execution"}
      [] current_state = "Closeout"        -> {"Invoicing", "Review"}
      [] current_state = "Archived"        -> {"Closeout", "Invoicing", "Review"}
      [] OTHER                             -> {}

\* A rollback check that accepts every other phase as target.
is_valid_rollback_anywhere(current_state, target_state) == target_state # current_state

is_valid_rollback(current_state, target_state) == target_state \in rollback_paths(current_state)

\* _handle_rollback_cleanup: leaving Archived clears end_date.
handle_rollback_cleanup(doc, from_state, to_state) ==
    IF from_state = "Archived" /\ to_state # "Archived" THEN doc \ {"end_date"} ELSE doc

\* ------------------------------------------------------------------ state
Procs == {1, 2}

VARIABLES
    phase,        \* Job Order.workflow_state as committed in the database
    phaseStart,   \* Job Order.phase_start_date (0: never set)
    fields,       \* truthy fields of the committed Job Order
    history,      \* committed Job Order Workflow History rows, insertion order
    escalations,  \* escalate_job_order jobs in the queue
    clock,        \* now()
    moves,        \* committed phase changes so far: the number of the current stay
    et,           \* per caller: an execute_transition call in flight (stay: the
                  \* stay of the entity its document was loaded in)
    sched,        \* the Scheduled Job Transition document
    wakeQ,        \* execute_scheduled_transition jobs in the queue
    wk,           \* the execute_scheduled_transition job in flight
    applied,      \* how often the scheduled request moved the entity
    last,         \* outcome of the most recent call
    calc          \* a call of a side-effect-free method (rules engine, phase
                  \* registry, validator): its arguments, then its result

vars == <<phase, phaseStart, fields, history, escalations, clock, moves, et, sched,
          wakeQ, wk, applied, last, calc>>

entityVars == <<phase, phaseStart, fields, history, moves>>
schedVars == <<sched, wakeQ, wk, applied>>

\* op: the call; from/to: the phase at the call and the requested destination;
\* error: the error label returned (or the exception class raised); reason: the
\* check or step that failed; named: the fields the message enumerates;
\* raised: the call ended in an exception that reached its caller.
Outcome(op, user, from, to, success, error, reason, named) ==
    [op |-> op, user |-> user, from |-> from, to |-> to, success |-> success,
     error |-> error, reason |-> reason, named |-> named, raised |-> FALSE,
     auto |-> <<>>]

\* The outcome of an execute_transition call with the log of its auto actions.
WithAuto(outcome, log) == [outcome EXCEPT !.auto = log]

\* frappe.throw(message): the outcome reaches the caller as an exception.
Thrown(outcome) == [outcome EXCEPT !.raised = TRUE]

IdleCall == [pc |-> "idle", user |-> None, from |-> None, to |-> None,
             doc |-> {}, stay |-> 0]

NoRequest == [status |-> None, action |-> None, conditions |-> <<>>,
              created_by |-> None, executed_at |-> 0, execution_result |-> None]

IdleWake == [pc |-> "idle", doc |-> NoRequest]

NoCalc == [op |-> None]

InitAt(start_phase) ==
    /\ phase = start_phase
    /\ phaseStart = 0
    /\ fields \in {calculate_totals(f) : f \in FieldSets}
    /\ history = <<>>
    /\ escalations = {}
    /\ clock = 1
    /\ moves = 0
    /\ et = [p \in Procs |-> IdleCall]
    /\ sched = NoRequest
    /\ wakeQ = 0
    /\ wk = IdleWake
    /\ applied = 0
    /\ last = Outcome("init", None, None, None, TRUE, None, "ok", <<>>)

\* A job order as JobOrder.before_insert leaves it: in Submission.
EntityInit == InitAt("Submission")

Init == EntityInit /\ calc = NoCalc

\* --------------------------------------------------------------- environment
Tick ==
    /\ clock < MaxTime
    /\ clock' = clock + 1
    /\ last' = Outcome("tick", None, None, None, TRUE, None, "ok", <<>>)
    /\ UNCHANGED <<entityVars, escalations, calc, et, schedVars>>

\* A user edits the job order's data (saved through validate()).
EditFields ==
    /\ \E f \in FieldSets :
          /\ calculate_totals(f) # fields
          /\ fields' = calculate_totals(f)
    /\ last' = Outcome("edit", None, None, None, TRUE, None, "ok", <<>>)
    /\ UNCHANGED <<phase, phaseStart, history, moves, escalations, calc, clock, et, schedVars>>

\* ------------------------------------------------- execute_transition (base)
\* calculate_phase_duration: the latest committed row that entered from_phase.
calculate_phase_duration(rows, from_phase, transition_date) ==
    LET prev == {i \in 1..Len(rows) : rows[i].to_phase = from_phase}
    IN IF prev = {} THEN -1
       ELSE LET latest == CHOOSE i \in prev :
                    \A j \in prev : rows[j].transition_date <= rows[i].transition_date
            IN transition_date - rows[latest].transition_date

\* A rollback that keeps the writes of the unit of work.
RollbackKeepsWrites(committed, working) == working

\* frappe.db.rollback(): the committed state survives, the unit's writes go.
Rollback(committed, working) == committed

\* frappe.db.commit(): the unit's writes become the committed state.
Commit(committed, working) == working

Committed == [phase |-> phase, fields |-> fields, history |-> history]

InFlight == {q \in Procs : et[q].pc # "idle"}

\* Lines 227-235: load current_state, validate, frappe.throw on rejection.
ETValidate(p, new_state, user) ==
    /\ et[p].pc = "idle"
    /\ moves + Cardinality(InFlight) < MaxMoves
    /\ LET current_state == phase
           validation == validate_transition(fields, current_state, new_state, user)
       IN IF ~validation.valid
          THEN /\ last' = Thrown(Outcome("execute_transition", user, current_state,
                                         new_state, FALSE, "ValidationError",
                                         validation.reason, validation.named))
               /\ UNCHANGED et
          ELSE /\ et' = [et EXCEPT ![p] = [pc |-> "validated", user |-> user,
                                           from |-> current_state, to |-> new_state,
                                           doc |-> fields, stay |-> moves]]
               /\ UNCHANGED last
    /\ UNCHANGED <<entityVars, escalations, calc, clock, schedVars>>

\* The steps of the unit of work in source order (lines 238-253); a failure is
\* an exception raised by the named step.
UnitSteps == <<"save", "auto", "history", "arm", "commit">>

\* The steps that can raise out of the unit: _execute_auto_actions catches
\* what its handlers raise, so "auto" is not among them.
FailPoints == (Range(UnitSteps) \ {"auto"}) \cup {"none"}

StepIndex(step) == CHOOSE i \in 1..Len(UnitSteps) : UnitSteps[i] = step

\* TRUE iff `step` has run to completion when the unit fails at `fail_at`.
Completed(step, fail_at) ==
    fail_at = "none" \/ StepIndex(step) < StepIndex(fail_at)

\* Lines 241-242: doc.workflow_state = new_state; doc.save() (validate runs
\* calculate_totals); the document written is the one loaded by the caller.
AfterSave(w, c, fail_at) ==
    IF Completed("save", fail_at)
    THEN [w EXCEPT !.phase = c.to, !.fields = calculate_totals(c.doc)]
    ELSE w

\* A history write stamped by a clock that runs backwards.
AfterHistoryStampedBackwards(w, c, fail_at) ==
    IF Completed("history", fail_at)
    THEN [w EXCEPT !.history =
            Append(@, [from_phase |-> c.from, to_phase |-> c.to,
                       transition_date |-> MaxTime - clock, user |-> c.user,
                       duration |-> calculate_phase_duration(@, c.from, clock),
                       stay |-> c.stay])]
    ELSE w

\* A history write that keeps the new row only.
AfterHistoryKeepsLatest(w, c, fail_at) ==
    IF fail_at \notin {"save", "history"}
    THEN [w EXCEPT !.history =
            <<[from_phase |-> c.from, to_phase |-> c.to,
               transition_date |-> clock, user |-> c.user,
               duration |-> -1, stay |-> c.stay]>>]
    ELSE w

\* Lines 244-248: auto actions (their failures are swallowed) and the history
\* row, stamped now_datetime() and given its duration by before_insert.
AfterHistory(w, c, fail_at) ==
    IF Completed("history", fail_at)
    THEN [w EXCEPT !.history =
            Append(@, [from_phase |-> c.from, to_phase |-> c.to,
                       transition_date |-> clock, user |-> c.user,
                       duration |-> calculate_phase_duration(@, c.from, clock),
                       stay |-> c.stay])]
    ELSE w

\* PHASES[...]["auto_actions"].
AutoActions(phase_name) ==
    CASE phase_name = "Submission"      -> <<"create_phase_history", "notify_estimator">>
      [] phase_name = "Estimation"      -> <<"calculate_estimates", "create_phase_history",
                                             "notify_client">>
      [] phase_name = "Client Approval" -> <<"create_phase_history", "notify_planning_team">>
      [] phase_name = "Planning"        -> <<"allocate_resources", "create_phase_history",
                                             "notify_team">>
      [] phase_name = "Prework"         -> <<"order_materials", "prepare_equipment",
                                             "create_phase_history", "notify_execution_team">>
      [] phase_name = "Execution"       -> <<"track_progress", "update_labor_hours",
                                             "create_phase_history", "notify_review_team">>
      [] phase_name = "Review"          -> <<"conduct_quality_check", "client_walkthrough",
                                             "create_phase_history", "notify_billing">>
      [] phase_name = "Invoicing"       -> <<"generate_invoice", "send_to_client",
                                             "create_phase_history", "notify_accounts">>
      [] phase_name = "Closeout"        -> <<"archive_documents", "generate_final_report",
                                             "create_phase_history", "notify_completion">>
      [] phase_name = "Archived"        -> <<"final_archival">>
      [] phase_name = "Cancelled"       -> <<"release_resources", "notify_cancellation",
                                             "create_phase_history">>
      [] OTHER                          -> <<>>

\* A round without the try around the handler: what it raises leaves the loop.
AutoResultUnguarded(action, raising) ==
    IF action = "create_phase_history" THEN "skipped"
    ELSE IF action \in raising THEN "raised"
    ELSE "done"

\* One round of the loop of _execute_auto_actions: create_phase_history is
\* skipped, a handler that raises is caught and logged, any other has run.
AutoResult(action, raising) ==
    IF action = "create_phase_history" THEN "skipped"
    ELSE IF action \in raising THEN "logged"
    ELSE "done"

\* The loop of _execute_auto_actions (lines 327-382) over the handlers in
\* `raising`: what each round did, and whether an exception left the loop
\* (which ends it).
RECURSIVE run_auto_actions(_, _)
run_auto_actions(actions, raising) ==
    IF actions = <<>> THEN [log |-> <<>>, escaped |-> FALSE]
    ELSE LET result == AutoResult(Head(actions), raising)
             rest == run_auto_actions(Tail(actions), raising)
             round == <<[action |-> Head(actions), result |-> result]>>
         IN IF result = "raised"
            THEN [log |-> round, escaped |-> TRUE]
            ELSE [log |-> round \o rest.log, escaped |-> rest.escaped]

\* _execute_auto_actions(doc, new_state, user)
execute_auto_actions(new_state, raising) == run_auto_actions(AutoActions(new_state), raising)

\* Lines 250-251 and _setup_escalations: frappe.enqueue puts the job in the
\* queue at once; the queue is not part of the database transaction.  stay is
\* a ghost: the stay of the entity the check is armed for (-1 when the unit
\* does not commit, so that no stay begins).
setup_escalations(queue, p, c, fail_at) ==
    IF Completed("arm", fail_at) /\ get_phase_config(c.to).escalation
    THEN queue \cup {[current_state |-> c.to, at |-> clock,
                      stay |-> IF fail_at = "none" THEN moves + 1 ELSE -1]}
    ELSE queue

\* escalate_job_order(job_order, current_state, escalate_to), run by the job
\* queue some time after the arming: it loads the job order and notifies the
\* roles when workflow_state equals the state it was armed with.
Escalate(job) ==
    /\ job \in escalations
    /\ escalations' = escalations \ {job}
    /\ last' = Outcome("escalate_job_order", None, job.current_state, phase, TRUE, None,
                       IF phase = job.current_state THEN "escalated" ELSE "skipped", <<>>)
    /\ UNCHANGED <<entityVars, calc, clock, et, schedVars>>

\* Lines 237-268: begin, save, auto actions, history, escalation, commit; the
\* except branch rolls the database back.  Uncommitted writes are invisible
\* to other callers, so the unit is one step.  `raising` are the auto-action
\* handlers that raise in this call.
ETUnit(p, fail_at, raising) ==
    /\ et[p].pc = "validated"
    /\ LET c == et[p]
           auto == IF Completed("save", fail_at)
                   THEN execute_auto_actions(c.to, raising)
                   ELSE [log |-> <<>>, escaped |-> FALSE]
           failed_at == IF auto.escaped THEN "auto" ELSE fail_at
           working == AfterHistory(AfterSave(Committed, c, failed_at), c, failed_at)
           db == IF failed_at = "none" THEN Commit(Committed, working)
                 ELSE Rollback(Committed, working)
       IN /\ phase' = db.phase
          /\ fields' = db.fields
          /\ history' = db.history
          /\ escalations' = setup_escalations(escalations, p, c, failed_at)
          /\ UNCHANGED calc
          /\ moves' = IF failed_at = "none" THEN moves + 1 ELSE moves
          /\ et' = [et EXCEPT ![p] = IdleCall]
          /\ last' = WithAuto(
                       IF failed_at = "none"
                       THEN Outcome("execute_transition", c.user, c.from, c.to, TRUE,
                                    None, "ok", <<>>)
                       ELSE Outcome("execute_transition", c.user, c.from, c.to, FALSE,
                                    "TransitionFailed", failed_at, <<>>),
                       auto.log)
    /\ UNCHANGED <<phaseStart, clock, schedVars>>

\* ------------------------------------------------ transition_phase (HTTP API)
Rejected(error) ==
    [success |-> FALSE, error |-> error, phase |-> phase,
     phaseStart |-> phaseStart, fields |-> fields]

\* transition_phase(job_order, action): the checks in their order, then
\* apply_workflow, phase_start_date = now(), _execute_phase_logic, save and
\* commit.  _record_phase_history has an empty body.  save_ok = FALSE is an
\* exception out of save()/commit(), answered with SystemError.
transition_phase(user, action, save_ok) ==
    LET current_state == phase
        next_state == get_next_state(current_state, action)
    IN IF ~has_write_permission(user) THEN Rejected("PermissionError")
       ELSE IF ~api_validate_transition(current_state, action) THEN Rejected("ValidationError")
       ELSE IF next_state = None THEN Rejected("WorkflowError")
       ELSE IF ~check_phase_prerequisites(fields, next_state).valid
         THEN Rejected("PrerequisiteError")
       ELSE IF ~save_ok THEN Rejected("SystemError")
       ELSE [success |-> TRUE, error |-> None, phase |-> next_state,
             phaseStart |-> clock,
             fields |-> calculate_totals(execute_phase_logic(fields, next_state))]

TransitionPhase(user, action, save_ok) ==
    LET r == transition_phase(user, action, save_ok)
    IN /\ moves + Cardinality(InFlight) < MaxMoves
       /\ phase' = r.phase
       /\ phaseStart' = r.phaseStart
       /\ fields' = r.fields
       /\ UNCHANGED et
       /\ moves' = IF r.success THEN moves + 1 ELSE moves
       /\ last' = Outcome("transition_phase", user, phase, action, r.success, r.error,
                          IF r.success THEN "ok" ELSE r.error, <<>>)
       /\ UNCHANGED <<history, escalations, calc, clock, schedVars>>

\* rollback_phase(job_order, target_state, reason)
RollbackPhase(user, target_state, save_ok) ==
    LET current_state == phase
        error == IF "System Manager" \notin get_roles(user) THEN "PermissionError"
                 ELSE IF ~is_valid_rollback(current_state, target_state) THEN "ValidationError"
                 ELSE IF ~save_ok THEN "SystemError"
                 ELSE None
    IN /\ moves + Cardinality(InFlight) < MaxMoves
       /\ IF error = None
          THEN /\ phase' = target_state
               /\ moves' = moves + 1
               /\ phaseStart' = clock
               /\ fields' = calculate_totals(
                                handle_rollback_cleanup(fields, current_state, target_state))
          ELSE UNCHANGED <<phase, phaseStart, fields, moves>>
       /\ last' = Outcome("rollback_phase", user, current_state, target_state, error = None,
                          error, IF error = None THEN "ok" ELSE error, <<>>)
       /\ UNCHANGED <<history, escalations, calc, clock, et, schedVars>>

\* ------------------------------------------------ scheduled transition runner
\* Actions callers ask for while a request is scheduled: one the workflow
\* offers from Submission, one from Estimation, one it never offers.
SchedActions == {"Estimation", "Client Approval", "Archived"}

\* Condition lists a caller may attach to a scheduled request.
CondLists ==
    {<<>>,
     <<[type |-> "field_exists", field |-> "description", value |-> None, hours |-> 0]>>,
     <<[type |-> "field_value", field |-> "workflow_state", value |-> "Submission", hours |-> 0],
       [type |-> "time_elapsed", field |-> "phase_start_date", value |-> None, hours |-> 1]>>}

\* One condition of _check_transition_conditions against the loaded job order.
condition_holds(condition) ==
    CASE condition.type = "field_value" ->
            (IF condition.field = "workflow_state" THEN phase = condition.value
             ELSE condition.value = None)
      [] condition.type = "field_exists" -> condition.field \in fields
      [] condition.type = "time_elapsed" ->
            (phaseStart = 0 \/ clock - phaseStart >= condition.hours)
      [] OTHER -> TRUE

\* _check_transition_conditions: False at the first condition that fails.
check_transition_conditions(conditions) ==
    \A i \in 1..Len(conditions) : condition_holds(conditions[i])

\* schedule_phase_transition: store the request as Pending and enqueue its wake.
Schedule(user, action, conditions) ==
    /\ sched.status = None
    /\ IF ~has_write_permission(user)
       THEN /\ last' = Outcome("schedule_phase_transition", user, phase, action, FALSE,
                               "PermissionError", "PermissionError", <<>>)
            /\ UNCHANGED schedVars
       ELSE /\ sched' = [status |-> "Pending", action |-> action, conditions |-> conditions,
                         created_by |-> user, executed_at |-> 0, execution_result |-> None]
            /\ wakeQ' = wakeQ + 1
            /\ last' = Outcome("schedule_phase_transition", user, phase, action, TRUE,
                               None, "ok", <<>>)
            /\ UNCHANGED <<wk, applied>>
    /\ UNCHANGED <<entityVars, escalations, calc, clock, et>>

\* A permission check that lets every user with a role cancel.
CancelAllowedForAnyone(request, user) ==
    request.created_by = user \/ get_roles(user) # {}

\* cancel_scheduled_transition: creator or System Manager; the status is
\* overwritten without looking at its current value.
CancelAllowed(request, user) ==
    request.created_by = user \/ "System Manager" \in get_roles(user)

CancelScheduled(user) ==
    /\ sched.status # None
    /\ IF ~CancelAllowed(sched, user)
       THEN /\ last' = Outcome("cancel_scheduled_transition", user, sched.status, "Cancelled",
                               FALSE, "PermissionError", "PermissionError", <<>>)
            /\ UNCHANGED sched
       ELSE /\ sched' = [sched EXCEPT !.status = "Cancelled"]
            /\ last' = Outcome("cancel_scheduled_transition", user, sched.status, "Cancelled",
                               TRUE, None, "ok", <<>>)
    /\ UNCHANGED <<entityVars, escalations, calc, clock, et, wakeQ, wk, applied>>

\* Line 205: only a Pending request is acted upon.
\* A wake that also acts on a Rescheduled request.
WakeIsNoopUnlessWaiting(status) == status \notin {"Pending", "Rescheduled"}

WakeIsNoop(status) == status # "Pending"

\* execute_scheduled_transition, lines 201-225: load the request, return if it
\* is not Pending, and reschedule (status Rescheduled, a new job one hour on)
\* when its conditions do not hold.
WakeLoad ==
    /\ wakeQ > 0
    /\ wk.pc = "idle"
    /\ IF WakeIsNoop(sched.status)
       THEN /\ wakeQ' = wakeQ - 1
            /\ last' = Outcome("wake", sched.created_by, sched.status, sched.action, TRUE,
                               None, "noop", <<>>)
            /\ UNCHANGED <<sched, wk>>
       ELSE IF sched.conditions # <<>> /\ ~check_transition_conditions(sched.conditions)
       THEN /\ sched' = [sched EXCEPT !.status = "Rescheduled"]
            /\ wakeQ' = wakeQ
            /\ last' = Outcome("wake", sched.created_by, sched.status, sched.action, TRUE,
                               None, "rescheduled", <<>>)
            /\ UNCHANGED wk
       ELSE /\ wakeQ' = wakeQ - 1
            /\ wk' = [pc |-> "exec", doc |-> sched]
            /\ last' = Outcome("wake", sched.created_by, sched.status, sched.action, TRUE,
                               None, "execute", <<>>)
            /\ UNCHANGED sched
    /\ UNCHANGED <<entityVars, escalations, calc, clock, et, applied>>

\* Lines 237-243: the status written after transition_phase has answered.
StatusAfter(success) == IF success THEN "Completed" ELSE "Failed"

\* Lines 227-250: call transition_phase, record the outcome on the loaded
\* request and save it.  sched_save_ok = FALSE is an exception out of that
\* save, which the handler only logs.
WakeExec(save_ok, sched_save_ok) ==
    /\ wk.pc = "exec"
    /\ moves < MaxMoves
    /\ LET r == transition_phase(wk.doc.created_by, wk.doc.action, save_ok)
       IN /\ phase' = r.phase
          /\ moves' = IF r.success THEN moves + 1 ELSE moves
          /\ phaseStart' = r.phaseStart
          /\ fields' = r.fields
          /\ UNCHANGED et
          /\ applied' = IF r.success THEN applied + 1 ELSE applied
          /\ sched' = IF sched_save_ok
                      THEN [wk.doc EXCEPT
                              !.status = StatusAfter(r.success),
                              !.executed_at = IF r.success THEN clock ELSE @,
                              !.execution_result = IF r.success THEN "Success" ELSE r.error]
                      ELSE sched
          /\ last' = Outcome("wake_exec", wk.doc.created_by, phase, wk.doc.action,
                             r.success /\ sched_save_ok,
                             IF ~sched_save_ok THEN "Logged" ELSE r.error,
                             IF r.success THEN "applied" ELSE "rejected", <<>>)
    /\ wk' = IdleWake
    /\ UNCHANGED <<history, escalations, calc, clock, wakeQ>>

\* ------------------------------------------------------------ specification
\* Destinations callers ask for: every phase within reach of Submission in
\* the explored number of moves, and Archived, which is never on offer there.
\* -------------------------------------------------------------- maintenance
\* reset_workflow(): deletes every history row and saves every job order with
\* workflow_state "Submission"; an exception rolls all of it back.
ResetWorkflow(ok) ==
    /\ moves + Cardinality(InFlight) < MaxMoves
    /\ IF ok
       THEN /\ history' = <<>>
            /\ phase' = "Submission"
            /\ fields' = calculate_totals(fields)
            /\ moves' = IF phase # "Submission" THEN moves + 1 ELSE moves
       ELSE UNCHANGED <<history, phase, fields, moves>>
    /\ last' = Outcome("reset_workflow", None, phase, "Submission", ok,
                       IF ok THEN None ELSE "ResetFailed", IF ok THEN "ok" ELSE "save", <<>>)
    /\ UNCHANGED <<phaseStart, escalations, calc, clock, et, schedVars>>

Targets == {"Submission", "Estimation", "Client Approval", "Planning", "Cancelled", "Archived"}

\* Rollback targets callers ask for: the above and one phase Archived may be
\* rolled back to.
RollbackTargets == Targets \cup {"Review"}

Next ==
    \/ Tick
    \/ \E p \in Procs, to \in Targets, u \in Users : ETValidate(p, to, u)
    \/ \E p \in Procs, f \in FailPoints : ETUnit(p, f, {})
    \/ \E u \in Users, a \in Targets, ok \in BOOLEAN : TransitionPhase(u, a, ok)
    \/ \E u \in Users, t \in RollbackTargets, ok \in BOOLEAN : RollbackPhase(u, t, ok)
    \/ \E ok \in BOOLEAN : ResetWorkflow(ok)

Spec == Init /\ [][Next]_vars

\* execute_transition with auto-action handlers that may raise (the handlers
\* of the source are placeholders that never do).
AutoHandlers == {"calculate_estimates", "release_resources"}

NextAuto ==
    \/ Tick
    \/ \E p \in Procs, to \in Targets, u \in Users : ETValidate(p, to, u)
    \/ \E p \in Procs, f \in FailPoints, raising \in SUBSET AutoHandlers :
          ETUnit(p, f, raising)

SpecAuto == Init /\ [][NextAuto]_vars

\* Escalation checks.  The run starts right after an execute_transition from
\* Estimation into Client Approval (the phase with an escalation policy) has
\* committed: its history row is written and its check is armed.
InitEsc ==
    /\ phase = "Client Approval"
    /\ phaseStart = 0
    /\ fields = calculate_totals(FullDoc)
    /\ history = <<[from_phase |-> "Estimation", to_phase |-> "Client Approval",
                    transition_date |-> 1, user |-> "admin", duration |-> -1,
                    stay |-> -1]>>
    /\ escalations = {[current_state |-> "Client Approval", at |-> 1, stay |-> 0]}
    /\ clock = 1
    /\ moves = 0
    /\ et = [p \in Procs |-> IdleCall]
    /\ sched = NoRequest
    /\ wakeQ = 0
    /\ wk = IdleWake
    /\ applied = 0
    /\ last = Outcome("execute_transition", "admin", "Estimation", "Client Approval",
                      TRUE, None, "ok", <<>>)
    /\ calc = NoCalc

NextEsc ==
    \/ Tick
    \/ \E p \in Procs, to \in Targets, u \in Users : ETValidate(p, to, u)
    \/ \E p \in Procs, f \in FailPoints : ETUnit(p, f, {})
    \/ \E u \in Users, a \in Targets, ok \in BOOLEAN : TransitionPhase(u, a, ok)
    \/ \E u \in Users, t \in RollbackTargets, ok \in BOOLEAN : RollbackPhase(u, t, ok)
    \/ \E job \in escalations : Escalate(job)

SpecEsc == InitEsc /\ [][NextEsc]_vars

\* The same operations on a job order that sits in Archived or Cancelled when
\* the run starts (transition_phase takes it there without a history row).
TerminalPhases == {"Archived", "Cancelled"}

InitTerminal == (\E p \in TerminalPhases : InitAt(p)) /\ calc = NoCalc

SpecTerminal == InitTerminal /\ [][Next]_vars

\* The scheduled-transition runner with the HTTP entry point it drives.
NextSched ==
    \/ Tick
    \/ EditFields
    \/ \E u \in Users, a \in SchedActions, ok \in BOOLEAN : TransitionPhase(u, a, ok)
    \/ \E u \in Users, a \in SchedActions, c \in CondLists : Schedule(u, a, c)
    \/ \E u \in Users : CancelScheduled(u)
    \/ WakeLoad
    \/ \E ok \in BOOLEAN, sok \in BOOLEAN : WakeExec(ok, sok)

SpecSched == Init /\ [][NextSched]_vars


\* ------------------------------------------------------------------- claims

\* A step in which caller p's execute_transition call returns from its unit of
\* work (lines 237-268).
ETDone(p) == et[p].pc = "validated" /\ et'[p].pc = "idle"

\* A step in which a call of the named operation returns.
Returned(op) == last'.op = op /\ (last' # last \/ \E p \in Procs : ETDone(p))

\* A step in which a transition request returns, through either entry point.
TransitionReturned == Returned("execute_transition") \/ Returned("transition_phase")

\* The required fields of the destination that are empty in doc, in order.
MissingFields(doc, to_state) ==
    SelectIn(get_phase_config(to_state).required_fields, AllFields \ doc)

\* C1: a transition request towards a destination that is not in the current
\* phase's transition set fails with WorkflowError and leaves phase,
\* phase_start_time and history as they were, through execute_transition and
\* through transition_phase alike.
C1_InvalidDestinationIsWorkflowError ==
    [][(TransitionReturned /\ last'.to \notin Range(get_valid_transitions(phase)))
          => /\ ~last'.success
             /\ last'.error = "WorkflowError"
             /\ UNCHANGED <<phase, phaseStart, history>>]_vars

\* C2: a transition request that is allowed by the transition set and by the
\* actor's roles, whose destination has required fields that are empty on the
\* entity, fails with ValidationError, its message names every missing field,
\* and phase and phase_start_time stay as they were.
C2_MissingFieldsAreNamed ==
    [][(/\ TransitionReturned
        /\ last'.to \in Range(get_valid_transitions(phase))
        /\ has_write_permission(last'.user)
        /\ HasRequiredRole(get_phase_config(last'.to).submit, get_roles(last'.user))
        /\ MissingFields(fields, last'.to) # <<>>)
          => /\ ~last'.success
             /\ last'.error = "ValidationError"
             /\ last'.named = MissingFields(fields, last'.to)
             /\ UNCHANGED <<phase, phaseStart>>]_vars

\* C3: every successful transition, through execute_transition or through
\* transition_phase, appends exactly one HistoryEntry (previous phase to new
\* phase) and sets phase_start_time to the time of the transition.
C3_SuccessWritesHistoryAndStart ==
    [][(TransitionReturned /\ last'.success)
          => /\ Len(history') = Len(history) + 1
             /\ SubSeq(history', 1, Len(history)) = history
             /\ history'[Len(history')].from_phase = phase
             /\ history'[Len(history')].to_phase = phase'
             /\ phaseStart' = clock]_vars

\* C4: transition requests of one entity are serialized: no two HistoryEntries
\* were validated against the same stay of the entity in a phase.
C4_OneCommitPerStay ==
    \A i \in 1..Len(history) : \A j \in 1..Len(history) :
        i # j => history[i].stay # history[j].stay

\* C5: an actor who holds none of the roles of the destination's non-empty
\* 'submit' list never moves the entity into that phase, whichever entry point
\* the request comes through.
C5_SubmitRolesGuardEveryEntryPoint ==
    [][(/\ TransitionReturned
        /\ get_phase_config(last'.to).submit # {}
        /\ ~HasRequiredRole(get_phase_config(last'.to).submit, get_roles(last'.user)))
          => /\ ~last'.success
             /\ phase' = phase]_vars

\* C6: an execute_transition call that fails after validation and before the
\* commit (while saving, writing the history row or arming the escalation)
\* leaves the phase as it was, adds no HistoryEntry and leaves no escalation
\* check armed.
C6_FailureBeforeCommitLeavesNothing ==
    [][\A p \in Procs :
          (ETDone(p) /\ ~last'.success /\ last'.reason \in {"save", "history", "arm"})
             => /\ phase' = phase
                /\ history' = history
                /\ escalations' = escalations
                /\ last'.error = "TransitionFailed"]_vars

\* C6 witness: a call into the phase that configures an escalation failed while
\* arming it, after the save and the history row.
C6_FailedWhileArming ==
    /\ last.op = "execute_transition"
    /\ ~last.success
    /\ last.reason = "arm"
    /\ get_phase_config(last.to).escalation
    /\ phase = last.from

\* A wake step: the job queue runs execute_scheduled_transition up to its
\* decision (lines 199-228).
WakeStep == last'.op = "wake" /\ (wakeQ' # wakeQ \/ sched' # sched)

\* C7: at the backoff wake a Rescheduled request is treated as Pending again:
\* its conditions are evaluated and, when they are met, it goes on to execute.
C7_RescheduledWakeReevaluates ==
    [][(/\ WakeStep
        /\ sched.status = "Rescheduled"
        /\ check_transition_conditions(sched.conditions))
          => wk'.pc = "exec"]_vars

\* C8: a scheduled transition whose conditions are met at wake time and whose
\* transition is accepted applies its action exactly once over the life of the
\* request, whatever further wakes fire, and ends Completed with executed_at set.
C8_AppliedOnceAndCompleted ==
    /\ applied <= 1
    /\ (last.op = "wake_exec" /\ last.reason = "applied")
          => /\ applied = 1
             /\ sched.status = "Completed"
             /\ sched.executed_at = clock

\* C9: cancellation is immediate and terminal for every interleaving with the
\* wake: once a request is Cancelled no wake applies its transition and its
\* status stays Cancelled.
C9_CancelledIsFinal ==
    [][sched.status = "Cancelled"
          => sched'.status = "Cancelled" /\ applied' = applied]_vars

\* C10: Completed and Failed are terminal: a cancel request changes the status
\* of a Pending or Rescheduled request only.
C10_CompletedAndFailedAreTerminal ==
    [][sched.status \in {"Completed", "Failed"} => sched'.status = sched.status]_vars

\* A step in which the wake finishes its execution part (lines 229-250).
WakeExecStep == wk.pc = "exec" /\ wk'.pc = "idle"

\* C11: whenever the wake of a Pending request attempts execution and the
\* attempt does not succeed (rejected transition or unexpected error), the
\* request ends Failed with the error stored; it is never left Pending.
C11_FailedAttemptIsRecorded ==
    [][(WakeExecStep /\ sched.status = "Pending" /\ ~last'.success)
          => /\ sched'.status = "Failed"
             /\ sched'.execution_result # None]_vars

\* The time of the entity's latest committed phase change: transition_phase
\* and rollback_phase stamp phase_start_date, execute_transition stamps its
\* history row.
LastTransitionTime ==
    IF history = <<>> \/ history[Len(history)].transition_date < phaseStart
    THEN phaseStart
    ELSE history[Len(history)].transition_date

\* C12: the HistoryEntry written by the entity's first transition has no
\* duration; every other HistoryEntry has duration_in_previous_phase equal to
\* its timestamp minus the timestamp of the immediately preceding transition.
C12_DurationSpansPreviousStay ==
    [][Len(history') = Len(history) + 1
          => LET entry == history'[Len(history')]
             IN IF moves = 0
                THEN entry.duration = -1
                ELSE entry.duration = entry.transition_date - LastTransitionTime]_vars

\* ------------------------------------------------------------ rules engine
\* Values of context fields and of conditions: a number, a string that is not
\* a number, or None (the field is missing from the context).
Num(n) == [numeric |-> TRUE, v |-> n]
Text == [numeric |-> FALSE, v |-> 0]
Missing == [numeric |-> FALSE, v |-> -1]

\* float(x): raises ValueError / TypeError for what is not a number.
ToFloat(x) == [ok |-> x.numeric, v |-> x.v]

\* "actual_value or 0"
OrZero(x) == IF x = Missing \/ x = Num(0) THEN Num(0) ELSE x

\* _get_field_value(field, context) for a flat context; a missing key is None.
get_field_value(field, context) ==
    IF field \in DOMAIN context THEN context[field] ELSE Missing

\* _evaluate_single_condition: "true", "false", or "raise" when float() raises.
evaluate_single_condition(condition, context) ==
    LET actual == get_field_value(condition.field, context)
        expected == condition.value
        l == ToFloat(OrZero(actual))
        r == ToFloat(expected)
    IN CASE condition.operator = "==" ->
              IF actual = expected THEN "true" ELSE "false"
         [] condition.operator = ">" ->
              IF ~l.ok \/ ~r.ok THEN "raise"
              ELSE IF l.v > r.v THEN "true" ELSE "false"
         [] condition.operator = "<" ->
              IF ~l.ok \/ ~r.ok THEN "raise"
              ELSE IF l.v < r.v THEN "true" ELSE "false"
         [] OTHER -> "false"

\* str.upper() on the logic values in use.
Upper(logic) ==
    CASE logic = "or" -> "OR"
      [] logic = "and" -> "AND"
      [] OTHER -> logic

\* The logic operator read from the last condition instead of the first.
LogicOperatorOfLast(conditions) ==
    IF conditions[Len(conditions)].logic = "absent" THEN "AND"
    ELSE conditions[Len(conditions)].logic

\* conditions[0].get("logic", "AND"); "absent" stands for a condition that has
\* no "logic" key.
LogicOperator(conditions) ==
    IF conditions[1].logic = "absent" THEN "AND" ELSE conditions[1].logic

\* evaluate_conditions: a condition that raises counts as False (lines 133-139);
\* the operator of the first condition decides between any() and all().
evaluate_conditions(conditions, context) ==
    IF conditions = <<>> THEN [all_passed |-> TRUE, total |-> 0, passed |-> 0]
    ELSE LET results == [i \in 1..Len(conditions) |->
                            evaluate_single_condition(conditions[i], context) = "true"]
             hits == {i \in 1..Len(conditions) : results[i]}
         IN [all_passed |-> IF Upper(LogicOperator(conditions)) = "OR"
                            THEN hits # {}
                            ELSE hits = 1..Len(conditions),
             total |-> Len(results),
             passed |-> Cardinality(hits)]

\* _execute_action: action.get("type") is outside the try block, so an action
\* that is not a dict raises to the caller; an exception of the handler itself
\* is logged and answered with None, as is an unknown action type.
execute_action(action) ==
    CASE action.type = "malformed" -> [raised |-> TRUE, value |-> None]
      [] action.type = "unknown" -> [raised |-> FALSE, value |-> None]
      [] action.handler_raises -> [raised |-> FALSE, value |-> None]
      [] OTHER -> [raised |-> FALSE, value |-> action.type]

\* execute_rule: the conditions, then the actions of a rule whose conditions
\* passed; an exception that reaches it makes the rule not passed.
execute_rule(rule, context) ==
    LET conditions_result == evaluate_conditions(rule.conditions, context)
        run == conditions_result.all_passed /\ rule.actions # <<>>
        outcomes == [i \in 1..Len(rule.actions) |-> execute_action(rule.actions[i])]
        raised == run /\ \E i \in 1..Len(rule.actions) : outcomes[i].raised
        returned == SelectSeq(outcomes, LAMBDA o : o.value # None)
    IN IF raised
       THEN [rule_name |-> rule.name, passed |-> FALSE, error |-> TRUE, actions |-> <<>>]
       ELSE [rule_name |-> rule.name, passed |-> conditions_result.all_passed,
             error |-> FALSE,
             actions |-> IF run THEN [i \in 1..Len(returned) |-> returned[i].value]
                         ELSE <<>>]

\* The loop of evaluate (lines 48-64) over the first n rules.
RECURSIVE evaluate_loop(_, _, _)
evaluate_loop(rules, context, n) ==
    IF n = 0
    THEN [rules_evaluated |-> <<>>, rules_passed |-> <<>>, rules_failed |-> <<>>,
          actions_triggered |-> <<>>, overall_result |-> TRUE]
    ELSE LET results == evaluate_loop(rules, context, n - 1)
             rule == rules[n]
             rule_result == execute_rule(rule, context)
         IN IF rule_result.passed
            THEN [results EXCEPT
                    !.rules_evaluated = Append(@, rule.name),
                    !.rules_passed = Append(@, rule.name),
                    !.actions_triggered = @ \o rule_result.actions]
            ELSE [results EXCEPT
                    !.rules_evaluated = Append(@, rule.name),
                    !.rules_failed = Append(@, rule.name),
                    !.overall_result = FALSE]

\* evaluate(context) over the rules _get_applicable_rules hands it.
evaluate(context, rules) == evaluate_loop(rules, context, Len(rules))

\* ------------------------------------------- calls of side-effect-free methods
Contexts == {[a |-> v] : v \in {Num(3), Num(7), Num(12), Text}} \cup {[b |-> Num(1)]}

Cond(operator, value, logic) ==
    [field |-> "a", operator |-> operator, value |-> value, logic |-> logic]

\* Comparisons of field a: two between numbers, one with a text that equals
\* nothing, one of a number with a text (float() raises); each with every
\* spelling of the logic key.
Conditions ==
    {Cond(t[1], t[2], logic) :
        t \in {<<">", Num(5)>>, <<"<", Num(10)>>, <<"==", Text>>, <<">", Text>>},
        logic \in {"absent", "AND", "OR", "or"}}

ConditionLists == UNION {[1..k -> Conditions] : k \in 1..MaxConds}

RuleConditionLists ==
    { <<Cond(">", Num(5), "AND")>>,
      <<Cond("<", Num(10), "absent")>>,
      <<Cond(">", Num(5), "OR"), Cond("==", Text, "absent")>> }

ActionLists ==
    { <<>>,
      <<[type |-> "require_approval", handler_raises |-> FALSE]>>,
      <<[type |-> "send_notification", handler_raises |-> TRUE]>>,
      <<[type |-> "unknown", handler_raises |-> FALSE]>>,
      <<[type |-> "malformed", handler_raises |-> FALSE]>> }

\* Rule lists; a rule is named by its place in the list.
RuleLists ==
    UNION {{[i \in 1..k |-> [name |-> i, conditions |-> body[i].conditions,
                              actions |-> body[i].actions]] :
              body \in [1..k -> [conditions : RuleConditionLists, actions : ActionLists]]} :
           k \in 1..MaxRules}

Call(op, args) == [op |-> op, stage |-> "call", args |-> args, result |-> None]

Return(call, result) == [call EXCEPT !.stage = "return", !.result = result]

RulesCalls ==
    {Call("evaluate_conditions", [conditions |-> c, context |-> x]) :
        c \in ConditionLists, x \in Contexts}
    \cup {Call("evaluate", [rules |-> r, context |-> x]) : r \in RuleLists, x \in Contexts}

\* Phase names asked of the registries: the defined ones and one that is not.
LookupNames == PhaseNames \cup WrapperPhaseNames \cup {"Unknown"}

LookupCalls ==
    {Call(op, [registry |-> r, phase_name |-> n]) :
        op \in {"get_phase_config", "get_valid_transitions"},
        r \in {"base", "wrapper"}, n \in LookupNames}

\* dict.get(key, default) raises nothing: the lookups answer with a value.
Answer(value) == [raised |-> None, value |-> value]

phase_lookup(op, registry, phase_name) ==
    CASE op = "get_phase_config" /\ registry = "base" ->
            Answer(get_phase_config(phase_name))
      [] op = "get_phase_config" /\ registry = "wrapper" ->
            Answer(wrapper_get_phase_config(phase_name))
      [] op = "get_valid_transitions" /\ registry = "base" ->
            Answer(get_valid_transitions(phase_name))
      [] op = "get_valid_transitions" /\ registry = "wrapper" ->
            Answer(wrapper_get_valid_transitions(phase_name))

callVars == <<phase, phaseStart, fields, history, escalations, clock, moves, et, sched,
              wakeQ, wk, applied, last>>

\* Validator calls: every stored document, every pair of registry names (and
\* one name that is no phase), every user.
ValidateCalls ==
    {Call("validate_transition",
          [doc |-> calculate_totals(d), from_state |-> f, to_state |-> t, user |-> u]) :
        d \in FieldSets, f \in LookupNames \ WrapperPhaseNames, t \in PhaseNames, u \in Users}

\* condition.get(key): None for a key the condition does not have.
Get(condition, key) == IF key \in DOMAIN condition THEN condition[key] ELSE None

\* "if not value" / "if value": None, 0 and "" are falsy.
Truthy(x) == x # Missing /\ x # Num(0)

\* _check_transition_conditions for a job order given as its field values:
\* each condition is dispatched on its "type" key; a condition of no known
\* type is passed over, and the first failing condition answers False.
check_transition_conditions_on(job_doc, conditions) ==
    \A i \in 1..Len(conditions) :
        LET condition == conditions[i]
            condition_type == Get(condition, "type")
        IN CASE condition_type = "field_value" ->
                  get_field_value(Get(condition, "field"), job_doc) = Get(condition, "value")
             [] condition_type = "field_exists" ->
                  Truthy(get_field_value(Get(condition, "field"), job_doc))
             [] condition_type = "time_elapsed" ->
                  LET reference_time ==
                          get_field_value(Get(condition, "reference_field"), job_doc)
                  IN Truthy(reference_time) => clock - reference_time.v >= Get(condition, "hours")
             [] OTHER -> TRUE

\* The wake's condition check called with the condition lists of the rules
\* engine, on the same job orders.
WakeConditionCalls ==
    {Call("check_transition_conditions", [conditions |-> c, context |-> x]) :
        c \in ConditionLists, x \in Contexts}

\* Calls of the wrapper's validate_transition: from every phase the wrapper
\* knows to every name its transition table mentions, with the base workflow
\* imported (HAS_BASE_WORKFLOW) and without it.
WrapperDestinations ==
    UNION {Range(wrapper_get_valid_transitions(p)) : p \in WrapperPhaseNames}

WrapperValidateCalls ==
    {Call("wrapper_validate_transition",
          [has_base_workflow |-> b, doc |-> calculate_totals(d), from_state |-> f,
           to_state |-> t, user |-> u]) :
        b \in BOOLEAN, d \in FieldSets, f \in WrapperPhaseNames,
        t \in WrapperDestinations, u \in Users}

\* ---------------------------------------------------------------------------
\* Role Delegation (role_delegation.py): the delegatee's Has Role rows, a
\* 'Full Role' delegation activated and then deactivated.
\* ---------------------------------------------------------------------------

\* Roles the delegator holds (validate_delegator_delegatee admits only these
\* in specific_roles).
DelegableRoles == {"Estimator", "Project Manager"}

\* A Has Role row of the delegatee: its role and its delegated_from mark
\* (None: unmarked; "other": marked by a delegation of another delegator).
HasRoleRow(role, delegated_from) == [role |-> role, delegated_from |-> delegated_from]

\* The Has Role tables the delegatee may have before activation: per role no
\* row, an unmarked row or a row marked by another delegator.
HasRoleTables ==
    {{HasRoleRow(r, m[r]) : r \in {x \in DelegableRoles : m[x] # "absent"}} :
        m \in [DelegableRoles -> {"absent", None, "other"}]}

\* The longest specific_roles table of a delegation.
MaxDelegated == 2

\* specific_roles: rows naming a role, or naming none ("").
SpecificRoles ==
    {rows \in UNION {[1..n -> DelegableRoles \cup {""}] : n \in 1..MaxDelegated} :
        \E i \in DOMAIN rows : rows[i] # ""}

roles_of(rows) == {row.role : row \in rows}

\* One turn of the loop of _grant_role_permissions: insert the row unless one
\* exists, then set delegated_from on the delegatee's rows of the role.
grant_role(rows, role, delegator) ==
    IF role = "" THEN rows
    ELSE LET present == IF \E row \in rows : row.role = role
                        THEN rows
                        ELSE rows \cup {HasRoleRow(role, None)}
         IN {IF row.role = role THEN HasRoleRow(role, delegator) ELSE row : row \in present}

\* One turn of the loop of _revoke_role_permissions: delete the delegatee's row
\* of the role that is marked with the delegator.
revoke_role(rows, role, delegator) ==
    IF role = "" THEN rows
    ELSE rows \ {HasRoleRow(role, delegator)}

RECURSIVE _grant_role_permissions(_, _, _)
_grant_role_permissions(rows, specific_roles, delegator) ==
    IF specific_roles = <<>> THEN rows
    ELSE _grant_role_permissions(grant_role(rows, Head(specific_roles), delegator),
                                 Tail(specific_roles), delegator)

RECURSIVE _revoke_role_permissions(_, _, _)
_revoke_role_permissions(rows, specific_roles, delegator) ==
    IF specific_roles = <<>> THEN rows
    ELSE _revoke_role_permissions(revoke_role(rows, Head(specific_roles), delegator),
                                  Tail(specific_roles), delegator)

\* Delegations of delegator "admin" to a delegatee with each Has Role table.
DelegationCalls ==
    {Call("role_delegation", [has_role |-> h, specific_roles |-> s, delegator |-> "admin"]) :
        h \in HasRoleTables, s \in SpecificRoles}

InitCalc ==
    /\ EntityInit
    /\ fields = calculate_totals(FullDoc)
    /\ calc \in RulesCalls \cup LookupCalls \cup ValidateCalls \cup WakeConditionCalls
                 \cup WrapperValidateCalls \cup DelegationCalls

EvaluateConditionsReturn ==
    /\ calc.op = "evaluate_conditions"
    /\ calc.stage = "call"
    /\ calc' = Return(calc, evaluate_conditions(calc.args.conditions, calc.args.context))
    /\ UNCHANGED callVars

EvaluateReturn ==
    /\ calc.op = "evaluate"
    /\ calc.stage = "call"
    /\ calc' = Return(calc, evaluate(calc.args.context, calc.args.rules))
    /\ UNCHANGED callVars

PhaseLookupReturn ==
    /\ calc.op \in {"get_phase_config", "get_valid_transitions"}
    /\ calc.stage = "call"
    /\ calc' = Return(calc, phase_lookup(calc.op, calc.args.registry, calc.args.phase_name))
    /\ UNCHANGED callVars

ValidateReturn ==
    /\ calc.op = "validate_transition"
    /\ calc.stage = "call"
    /\ calc' = Return(calc, validate_transition(calc.args.doc, calc.args.from_state,
                                                calc.args.to_state, calc.args.user))
    /\ UNCHANGED callVars

CheckConditionsReturn ==
    /\ calc.op = "check_transition_conditions"
    /\ calc.stage = "call"
    /\ calc' = Return(calc, check_transition_conditions_on(calc.args.context,
                                                           calc.args.conditions))
    /\ UNCHANGED callVars

WrapperValidateReturn ==
    /\ calc.op = "wrapper_validate_transition"
    /\ calc.stage = "call"
    /\ calc' = Return(calc, wrapper_validate_transition(
                                calc.args.has_base_workflow, calc.args.doc,
                                calc.args.from_state, calc.args.to_state, calc.args.user))
    /\ UNCHANGED callVars

\* activate_delegation of a 'Full Role' delegation: result holds the
\* delegatee's Has Role rows after it.
ActivateDelegation ==
    /\ calc.op = "role_delegation"
    /\ calc.stage = "call"
    /\ calc' = [calc EXCEPT !.stage = "activated",
                            !.result = _grant_role_permissions(
                                calc.args.has_role, calc.args.specific_roles,
                                calc.args.delegator)]
    /\ UNCHANGED callVars

\* deactivate_delegation of the activated delegation.
DeactivateDelegation ==
    /\ calc.op = "role_delegation"
    /\ calc.stage = "activated"
    /\ calc' = Return(calc, _revoke_role_permissions(
                                calc.result, calc.args.specific_roles,
                                calc.args.delegator))
    /\ UNCHANGED callVars

NextCalc ==
    \/ ActivateDelegation
    \/ DeactivateDelegation
    \/ WrapperValidateReturn
    \/ CheckConditionsReturn
    \/ EvaluateConditionsReturn
    \/ EvaluateReturn
    \/ PhaseLookupReturn
    \/ ValidateReturn

SpecCalc == InitCalc /\ [][NextCalc]_vars

\* A job order moved by execute_transition alone, one call after the other:
\* each call is validated against the phase the entity is in and, when it is
\* accepted, commits its destination.  calc holds the entity's document, its
\* phase, the phases it has been in and the answer to the latest call.
InitWalk ==
    /\ EntityInit
    /\ fields = calculate_totals(FullDoc)
    /\ calc \in {[op |-> "walk", doc |-> calculate_totals(d), at |-> "Submission",
                   visited |-> {"Submission"}, answer |-> None] : d \in FieldSets}

WalkStep(new_state, user) ==
    /\ calc.op = "walk"
    /\ LET validation == validate_transition(calc.doc, calc.at, new_state, user)
       IN calc' = IF validation.valid
                  THEN [calc EXCEPT !.at = new_state, !.visited = @ \cup {new_state},
                                    !.answer = "ok"]
                  ELSE [calc EXCEPT !.answer = validation.reason]
    /\ UNCHANGED callVars

NextWalk == \E new_state \in PhaseNames, user \in Users : WalkStep(new_state, user)

SpecWalk == InitWalk /\ [][NextWalk]_vars

CallReturned(op) == calc.op = op /\ calc.stage = "return"

\* The condition holds in the context.
Holds(condition, context) == evaluate_single_condition(condition, context) = "true"

\* C13: for a non-empty condition list the result is true iff every condition
\* holds when the first condition's logic is absent or AND, and iff at least
\* one holds when it is OR, whatever the logic of the later conditions.
C13_FirstLogicDecides ==
    CallReturned("evaluate_conditions") =>
        LET conditions == calc.args.conditions
            context == calc.args.context
            every == \A i \in 1..Len(conditions) : Holds(conditions[i], context)
            some == \E i \in 1..Len(conditions) : Holds(conditions[i], context)
        IN /\ conditions[1].logic \in {"absent", "AND"} => calc.result.all_passed = every
           /\ conditions[1].logic = "OR" => calc.result.all_passed = some

\* C13 witness: a > 5 OR a < 10 (the second condition says AND) evaluated for
\* a = 12 passes although only the first condition holds.
C13_OrPassesOnOneCondition ==
    /\ CallReturned("evaluate_conditions")
    /\ calc.args.conditions = <<Cond(">", Num(5), "OR"), Cond("<", Num(10), "AND")>>
    /\ calc.args.context = [a |-> Num(12)]
    /\ calc.result.all_passed

\* Evaluating the rule raises an exception: in one of its conditions, or in one
\* of its actions when the conditions let the actions run.
RuleRaises(rule, context) ==
    \/ \E i \in 1..Len(rule.conditions) :
          evaluate_single_condition(rule.conditions[i], context) = "raise"
    \/ /\ evaluate_conditions(rule.conditions, context).all_passed
       /\ \E i \in 1..Len(rule.actions) :
             rule.actions[i].type = "malformed" \/ rule.actions[i].handler_raises

\* C14: a rule whose conditions or actions raise an exception is recorded as
\* failed (it is in rules_failed and overall_result is false), and every rule
\* of the list is still evaluated.
C14_RaisingRuleIsRecordedFailed ==
    CallReturned("evaluate") =>
        LET rules == calc.args.rules
            context == calc.args.context
        IN /\ calc.result.rules_evaluated = [i \in 1..Len(rules) |-> rules[i].name]
           /\ \A i \in 1..Len(rules) :
                 RuleRaises(rules[i], context)
                    => /\ rules[i].name \in Range(calc.result.rules_failed)
                       /\ ~calc.result.overall_result

\* The phases a registry defines.
DefinedPhases(registry) == IF registry = "base" THEN PhaseNames ELSE WrapperPhaseNames

\* C15: looking up a phase name that the Phase Registry does not define
\* (definition lookup or valid-transitions lookup) yields a WorkflowError,
\* never an empty definition or an empty transition list.
C15_UnknownPhaseIsWorkflowError ==
    (/\ CallReturned("get_phase_config") \/ CallReturned("get_valid_transitions")
     /\ calc.args.phase_name \notin DefinedPhases(calc.args.registry))
        => calc.result.raised = "WorkflowError"

\* C16: execute_transition raises to its caller only for an unexpected failure
\* during commit; a transition rejected by validation is reported without
\* raising.
C16_RaisesOnlyOnCommitFailure ==
    (last.op = "execute_transition" /\ ~last.success)
        => /\ last.raised => last.reason = "commit"
           /\ last.reason \in {"invalid_transition", "roles", "missing_fields", "rule"}
                 => ~last.raised

\* Every HistoryEntry present before the step is present and unchanged after it.
HistoryKept ==
    /\ Len(history') >= Len(history)
    /\ SubSeq(history', 1, Len(history)) = history

\* C17 as stated: no operation of the system removes or modifies an existing
\* HistoryEntry.
C17_NoOperationTouchesHistory == [][HistoryKept]_vars

\* C17: history is append-only under execute_transition, transition_phase and
\* rollback_phase; the only step that removes entries is a successful
\* reset_workflow, which deletes them all.
C17_AppendOnlyExceptReset ==
    [][HistoryKept \/ (last'.op = "reset_workflow" /\ last'.success /\ history' = <<>>)]_vars

\* C17 witness: a second entry was appended behind the first.
C17_SecondEntryAppended ==
    /\ Len(history) = 2
    /\ last.op = "execute_transition"
    /\ last.success

TransitionOps == {"execute_transition", "transition_phase", "rollback_phase"}

\* C18 as stated: once the phase is Archived or Cancelled, no execute_transition,
\* transition_phase or rollback_phase changes it.
C18_TerminalPhasesNeverLeft ==
    [][(phase \in TerminalPhases /\ last'.op \in TransitionOps) => (phase' = phase)]_vars

\* The ways out of a terminal phase the code has.
ListedExit ==
    \/ /\ last'.op = "reset_workflow"
       /\ phase' = "Submission"
    \/ /\ phase = "Archived"
       /\ last'.op = "rollback_phase"
       /\ "System Manager" \in get_roles(last'.user)
       /\ phase' \in {"Closeout", "Invoicing", "Review"}
    \/ /\ phase = "Cancelled"
       /\ last'.op \in {"execute_transition", "transition_phase"}
       /\ last'.from = "Cancelled"
       /\ phase' = "Submission"
    \/ /\ last'.op = "execute_transition"
       /\ last'.from # phase

\* C18: execute_transition and transition_phase never move an entity out of
\* Archived, and rollback_phase never moves one out of Cancelled; the ways out
\* are rollback_phase by a System Manager from Archived to Closeout, Invoicing
\* or Review, the reactivation Cancelled -> Submission by execute_transition or
\* transition_phase, reset_workflow, and the commit of an execute_transition
\* that was validated in another phase.
C18_TerminalPhasesLeftOnlyByListedExits ==
    [][(phase \in TerminalPhases /\ phase' # phase) => ListedExit]_vars

\* C18 witness: an Archived entity was rolled back.
C18_ArchivedRolledBack ==
    /\ last.op = "rollback_phase"
    /\ last.success
    /\ last.from = "Archived"
    /\ phase = "Review"

\* A step in which a cancel_scheduled_transition call returns.
CancelStep == last'.op = "cancel_scheduled_transition" /\ last' # last

MayCancel(user) == sched.created_by = user \/ "System Manager" \in get_roles(user)

CancelOutcome ==
    IF MayCancel(last'.user)
    THEN last'.error # "PermissionError"
    ELSE /\ ~last'.success
         /\ last'.error = "PermissionError"
         /\ sched' = sched

\* C19: a cancel by a user who is neither the creator of the request nor a
\* System Manager returns PermissionError and leaves the request as it was; the
\* status becomes Cancelled only through a cancel by the creator or a System
\* Manager.
C19_OnlyCreatorOrAdminCancels ==
    [][/\ CancelStep => CancelOutcome
       /\ (sched'.status = "Cancelled" /\ sched.status # "Cancelled") =>
              (CancelStep /\ MayCancel(last'.user))]_vars

\* C19 witness: a cancel by another user was refused while the request was
\* Pending.
C19_StrangerRefused ==
    /\ last.op = "cancel_scheduled_transition"
    /\ last.error = "PermissionError"
    /\ sched.status = "Pending"
    /\ sched.created_by # last.user
    /\ "System Manager" \notin get_roles(last.user)

\* The four checks of the validator, each taken alone on the arguments of the
\* call.
TransitionNotAllowed(a) == a.to_state \notin Range(get_phase_config(a.from_state).transitions)

RoleMissing(a) ==
    LET required_roles == get_phase_config(a.to_state).submit
    IN required_roles # {} /\ required_roles \cap get_roles(a.user) = {}

FieldsMissing(a) ==
    \E i \in DOMAIN get_phase_config(a.to_state).required_fields :
        get_phase_config(a.to_state).required_fields[i] \notin a.doc

FailingRules(a) ==
    {i \in DOMAIN get_phase_config(a.to_state).validation_rules :
        ~execute_validation_rule(a.doc, get_phase_config(a.to_state).validation_rules[i]).valid}

FirstFailingRule(a) ==
    get_phase_config(a.to_state).validation_rules[
        CHOOSE i \in FailingRules(a) : \A j \in FailingRules(a) : i <= j]

\* The verdict the order of checks prescribes.
EarliestFailure(a) ==
    IF TransitionNotAllowed(a) THEN Verdict(FALSE, "invalid_transition", <<>>)
    ELSE IF RoleMissing(a) THEN Verdict(FALSE, "roles", <<>>)
    ELSE IF FieldsMissing(a)
      THEN Verdict(FALSE, "missing_fields",
                   SelectIn(get_phase_config(a.to_state).required_fields, AllFields \ a.doc))
    ELSE IF FailingRules(a) # {} THEN execute_validation_rule(a.doc, FirstFailingRule(a))
    ELSE Verdict(TRUE, "ok", <<>>)

ChecksFailing(a) ==
    (IF TransitionNotAllowed(a) THEN {1} ELSE {})
      \cup (IF RoleMissing(a) THEN {2} ELSE {})
      \cup (IF FieldsMissing(a) THEN {3} ELSE {})
      \cup (IF FailingRules(a) # {} THEN {4} ELSE {})

\* C20: the validator's verdict is that of the earliest failing check in the
\* order transition, actor role, required fields, validation rules as listed;
\* later checks add nothing to it.
C20_EarliestFailingCheckIsReported ==
    CallReturned("validate_transition") => calc.result = EarliestFailure(calc.args)

\* C20 witness: a request that fails the role check, the required fields and a
\* validation rule at once was answered with the role failure.
C20_SeveralChecksFailRoleReported ==
    /\ CallReturned("validate_transition")
    /\ ChecksFailing(calc.args) = {2, 3, 4}
    /\ calc.result.reason = "roles"

\* What a wake that does nothing leaves behind: the request, the entity and
\* its history as they were, the job taken off the queue and none put on it,
\* and no execution under way.
WakeDidNothing ==
    /\ sched' = sched
    /\ phase' = phase
    /\ phaseStart' = phaseStart
    /\ fields' = fields
    /\ history' = history
    /\ applied' = applied
    /\ wakeQ' = wakeQ - 1
    /\ wk' = wk

\* C21: a wake of a scheduled request whose status is not Pending is a no-op:
\* the request, the entity's phase and its history are unchanged and no further
\* wake is armed.
C21_WakeOfNonPendingIsNoop ==
    [][(WakeStep /\ sched.status # "Pending") => WakeDidNothing]_vars

\* C21 witness: the wake of a Cancelled request has run and returned at once.
C21_CancelledWakeReturned ==
    /\ last.op = "wake"
    /\ last.reason = "noop"
    /\ last.from = "Cancelled"
    /\ sched.status = "Cancelled"

ETOutcome == last.op = "execute_transition" /\ ~last.raised

LoggedAt(i) == i \in DOMAIN last.auto /\ last.auto[i].result = "logged"

\* C22: an auto-action that fails during execute_transition does not undo the
\* transition: no call fails because of it, a call whose other steps went
\* through succeeds with the entity in the new phase and the HistoryEntry
\* written, and every auto-action of the destination was gone through in order.
C22_AutoActionFailureIsSwallowed ==
    ETOutcome =>
        /\ last.reason # "auto"
        /\ (last.auto # <<>> /\ last.reason \notin {"history", "arm", "commit"})
              => last.success
        /\ last.success =>
              /\ phase = last.to
              /\ history # <<>>
              /\ history[Len(history)].from_phase = last.from
              /\ history[Len(history)].to_phase = last.to
              /\ Len(last.auto) = Len(AutoActions(last.to))
              /\ \A i \in DOMAIN last.auto :
                    /\ last.auto[i].action = AutoActions(last.to)[i]
                    /\ last.auto[i].result \in {"done", "logged", "skipped"}

\* C22 witness: the first auto-action of Estimation failed, the one after it
\* ran, and the call succeeded.
C22_FailedAutoActionThenSuccess ==
    /\ ETOutcome
    /\ last.success
    /\ last.to = "Estimation"
    /\ LoggedAt(1)
    /\ last.auto[3].result = "done"
    /\ phase = "Estimation"

C24_HistoryChainTracksEntity ==
    /\ \A i \in DOMAIN history :
          i > 1 => history[i].from_phase = history[i - 1].to_phase
    /\ history # <<>> => history[Len(history)].to_phase = phase

\* A step in which an escalation check fires.
EscalationFires == last'.op = "escalate_job_order" /\ escalations' # escalations

\* C25: a firing check escalates only if the entity has stayed in the phase
\* from the arming until now (the check was armed for the current stay), and
\* it never changes the entity's phase or history.
C25_EscalatesOnlyForTheArmedStay ==
    [][EscalationFires =>
          /\ phase' = phase
          /\ history' = history
          /\ last'.reason = "escalated" =>
                \A job \in escalations \ escalations' : job.stay = moves]_vars

\* C26: for every condition list of shape {field, operator, value, logic} and
\* every entity state, the wake's verdict on the conditions equals the rules
\* engine's evaluation of the same list on the same state.
C26_WakeVerdictIsRulesEngineVerdict ==
    CallReturned("check_transition_conditions") =>
        calc.result = evaluate_conditions(calc.args.conditions, calc.args.context).all_passed

\* The phases with phase_order 1 to 10, and the nine of them before Archived.
NumberedPhases == {p \in PhaseNames : PHASES[p].phase_order \in 1..10}

NinePhases == {p \in PhaseNames : PHASES[p].phase_order \in 1..9}

OrderStep(p, d) ==
    LET diff == get_phase_config(d).phase_order - get_phase_config(p).phase_order
    IN diff = 1 \/ diff = -1

\* C27: every configured transition between two numbered phases changes
\* phase_order by exactly one, and an entity moved from Submission by
\* execute_transition alone is Archived only after it has been in each of the
\* nine phases Submission through Closeout.
C27_ArchivedOnlyThroughAllNine ==
    /\ \A p \in NumberedPhases :
          \A i \in DOMAIN get_valid_transitions(p) :
              get_valid_transitions(p)[i] \in NumberedPhases
                  => OrderStep(p, get_valid_transitions(p)[i])
    /\ (calc.op = "walk" /\ calc.at = "Archived") => NinePhases \subseteq calc.visited

\* C27 witness: the entity has been walked from Submission to Archived.
C27_WalkedToArchived ==
    /\ calc.op = "walk"
    /\ calc.at = "Archived"
    /\ Cardinality(calc.visited) >= 10

\* C28: every destination the wrapper's get_valid_transitions(p) returns for a
\* phase p it knows passes the transition-existence check of the wrapper's
\* validate_transition(doc, p, d), with the base workflow and without it.
C28_WrapperTransitionsPassExistenceCheck ==
    (/\ CallReturned("wrapper_validate_transition")
     /\ calc.args.to_state \in Range(wrapper_get_valid_transitions(calc.args.from_state)))
        => calc.result.reason # "invalid_transition"

\* ---------------------------------------------------------------------------
\* RateLimiter (job_workflow_security.py): requests of one identifier, served
\* by the workers in Procs.  calc holds the cache entry of the identifier, the
\* wall clock, each worker's position in is_rate_limited and the times of the
\* requests that were answered limited = False.
\* ---------------------------------------------------------------------------

\* The decorator's arguments: @rate_limit(limit, window_seconds).
RateLimit == 2
WindowSeconds == 2

\* The model follows the requests until RateHorizon on the wall clock and
\* until MaxAdmitted of them have been admitted.
RateHorizon == 4
MaxAdmitted == RateLimit + 1

NoEntry == [requests |-> <<>>, expires |-> 0]
IdleLimiterCall == [pc |-> "idle", current_time |-> 0, recent_requests |-> <<>>]

\* frappe.cache().get_value(cache_key): the entry, unless its expiry passed.
\* json.dumps and json.loads of a list of integers give the list back.
cache_get_value(entry, now) == IF now < entry.expires THEN entry.requests ELSE <<>>

\* [req for req in requests if req >= window_start]
recent_of(requests, window_start) == SelectSeq(requests, LAMBDA req : req >= window_start)

InitRate ==
    /\ EntityInit
    /\ fields = calculate_totals(FullDoc)
    /\ calc = [op |-> "is_rate_limited", now |-> 1, cache |-> NoEntry,
               call |-> [p \in Procs |-> IdleLimiterCall], admitted |-> <<>>,
               limited |-> None]

\* time.time() advances.
RateTick ==
    /\ calc.op = "is_rate_limited"
    /\ calc.now < RateHorizon
    /\ calc' = [calc EXCEPT !.now = @ + 1]
    /\ UNCHANGED callVars

\* is_rate_limited up to its answer or to the point where it has read the
\* cache and decided to admit: current_time, window_start, get_value, the
\* filter, the comparison with limit and the append.  cache_ok = FALSE: the
\* cache raises, the except branch answers limited = False.
RateLoad(p, cache_ok) ==
    /\ calc.op = "is_rate_limited"
    /\ calc.call[p].pc = "idle"
    /\ Len(calc.admitted) < MaxAdmitted
    /\ LET current_time == calc.now
           window_start == current_time - WindowSeconds
           recent_requests == recent_of(cache_get_value(calc.cache, current_time),
                                        window_start)
       IN calc' = IF ~cache_ok
                  THEN [calc EXCEPT !.admitted = Append(@, current_time),
                                    !.limited = "False"]
                  ELSE IF Len(recent_requests) >= RateLimit
                  THEN [calc EXCEPT !.limited = "True"]
                  ELSE [calc EXCEPT !.call[p] =
                            [pc |-> "store", current_time |-> current_time,
                             recent_requests |-> Append(recent_requests, current_time)]]
    /\ UNCHANGED callVars

\* The rest of is_rate_limited: set_value(cache_key, recent_requests,
\* expires_in_sec = window_seconds) and the answer limited = False.
\* cache_ok = FALSE: set_value raises, the except branch answers the same.
RateStore(p, cache_ok) ==
    /\ calc.op = "is_rate_limited"
    /\ calc.call[p].pc = "store"
    /\ calc' = [calc EXCEPT
                    !.cache = IF cache_ok
                              THEN [requests |-> calc.call[p].recent_requests,
                                    expires |-> calc.now + WindowSeconds]
                              ELSE @,
                    !.admitted = Append(@, calc.call[p].current_time),
                    !.limited = "False",
                    !.call[p] = IdleLimiterCall]
    /\ UNCHANGED callVars

NextRate ==
    \/ RateTick
    \/ \E p \in Procs, cache_ok \in BOOLEAN : RateLoad(p, cache_ok)
    \/ \E p \in Procs, cache_ok \in BOOLEAN : RateStore(p, cache_ok)

SpecRate == InitRate /\ [][NextRate]_vars

\* The requests admitted with a time in the window that starts at t.
AdmittedIn(t) == {i \in DOMAIN calc.admitted :
                     t <= calc.admitted[i] /\ calc.admitted[i] < t + WindowSeconds}

\* C29: for one identifier, in every window of window_seconds at most limit
\* requests are answered limited = False, also when several workers serve
\* requests of the identifier at once.
C29_AtMostLimitAdmittedPerWindow ==
    calc.op = "is_rate_limited"
        => \A t \in 0..RateHorizon : Cardinality(AdmittedIn(t)) <= RateLimit

\* C30: after a 'Full Role' delegation was activated and then deactivated the
\* delegatee holds exactly the roles held before activation.
C30_RoundTripRestoresRoles ==
    CallReturned("role_delegation")
        => roles_of(calc.result) = roles_of(calc.args.has_role)

====
